---------------------------- MODULE Spec2Model ----------------------------
(***************************************************************************)
(* Webhook signature verification of stripe-node (src/src/Webhooks.ts).    *)
(*                                                                         *)
(* Text is a sequence of one-character strings, so that the header grammar *)
(* (split on ",", split on "=", parseInt, number formatting) is computed   *)
(* the way the code computes it.  A JavaScript value that may be a number, *)
(* NaN or undefined is a record [t, v].                                    *)
(***************************************************************************)
EXTENDS Integers, Sequences, FiniteSets

\* ------------------------------------------------------------------ bounds
\* The clock is sampled at the instants 1..MaxTick and at one instant more
\* than DEFAULT_TOLERANCE seconds later.
MaxTick == 3
\* Tolerances passed by the caller range over -1..MaxTolerance, undefined
\* and null.
MaxTolerance == 1
\* At most MaxEdits things happen to a header on its way: a pair is added or
\* lost, or the HTTP layer changes its shape.
MaxEdits == 1

\* ------------------------------------------------------ JavaScript values
JsNum(n) == [t |-> "number", v |-> n]
JsNaN == [t |-> "NaN", v |-> 0]
JsUndefined == [t |-> "undefined", v |-> 0]
JsNull == [t |-> "null", v |-> 0]

\* The text that stands for the value undefined (no text has an element of
\* more than one character, so it differs from every text).
UNDEFINED == <<"undefined">>

\* ToBoolean of a number-like value: 0, NaN, null and undefined are falsy.
Truthy(x) == x.t = "number" /\ x.v # 0

\* ToNumber: null converts to 0, undefined to NaN.
ToNumber(x) ==
    CASE x.t = "null" -> JsNum(0)
      [] x.t = "undefined" -> JsNaN
      [] OTHER -> x

\* a || b on number-like values.
Or(a, b) == IF Truthy(a) THEN a ELSE b

\* Math.floor: the numbers of the model are integers; undefined floors to
\* NaN.
MathFloor(x) == IF x.t = "number" THEN x ELSE JsNaN

\* a - b on numbers; NaN when either side is not a number.
Minus(a, b) == IF a.t = "number" /\ b.t = "number" THEN JsNum(a.v - b.v) ELSE JsNaN

\* a > b: both sides convert to numbers, and every comparison with NaN is
\* false.
Greater(a, b) ==
    LET x == ToNumber(a)
        y == ToNumber(b)
    IN  x.t = "number" /\ y.t = "number" /\ x.v > y.v

\* a === b on number-like values: NaN is equal to nothing, itself included.
StrictEquals(a, b) ==
    \/ a.t = "number" /\ b.t = "number" /\ a.v = b.v
    \/ a.t = "undefined" /\ b.t = "undefined"
    \/ a.t = "null" /\ b.t = "null"

\* ------------------------------------------------------------------- text
Digits == <<"0", "1", "2", "3", "4", "5", "6", "7", "8", "9">>

IsDigit(c) == \E i \in 1..10 : Digits[i] = c

DigitValue(c) == (CHOOSE i \in 1..10 : Digits[i] = c) - 1

RECURSIVE NatToString(_)
NatToString(n) ==
    IF n < 10 THEN <<Digits[n + 1]>>
    ELSE NatToString(n \div 10) \o <<Digits[(n % 10) + 1]>>

\* String(x) of a number-like value, as string concatenation ('t=' + x)
\* and template literals compute it.
NumberToString(x) ==
    CASE x.t = "NaN" -> <<"N", "a", "N">>
      [] x.t = "undefined" -> <<"u", "n", "d", "e", "f", "i", "n", "e", "d">>
      [] x.t = "number" /\ x.v < 0 -> <<"-">> \o NatToString(-x.v)
      [] OTHER -> NatToString(x.v)

\* The value of the longest prefix of digits of s, continuing from acc.
RECURSIVE DigitsPrefix(_, _, _)
DigitsPrefix(s, i, acc) ==
    IF i > Len(s) \/ ~IsDigit(s[i]) THEN acc
    ELSE DigitsPrefix(s, i + 1, 10 * acc + DigitValue(s[i]))

\* parseInt(s, 10): an optional sign, then the longest prefix of digits;
\* NaN when there is no digit there.  parseInt(undefined) is NaN.
ParseInt(s) ==
    IF s = UNDEFINED THEN JsNaN
    ELSE LET neg == Len(s) >= 1 /\ s[1] = "-"
             signed == Len(s) >= 1 /\ s[1] \in {"-", "+"}
             first == IF signed THEN 2 ELSE 1
         IN  IF first > Len(s) \/ ~IsDigit(s[first]) THEN JsNaN
             ELSE LET n == DigitsPrefix(s, first, 0)
                  IN  JsNum(IF neg THEN -n ELSE n)

\* s.split(sep) for a one-character separator: every occurrence splits, and
\* a text without the separator is the only piece.
RECURSIVE SplitFrom(_, _, _, _)
SplitFrom(s, sep, i, piece) ==
    IF i > Len(s) THEN <<piece>>
    ELSE IF s[i] = sep THEN <<piece>> \o SplitFrom(s, sep, i + 1, <<>>)
    ELSE SplitFrom(s, sep, i + 1, Append(piece, s[i]))

Split(s, sep) == SplitFrom(s, sep, 1, <<>>)

\* pieces.join(sep)
RECURSIVE Join(_, _)
Join(pieces, sep) ==
    IF Len(pieces) = 0 THEN <<>>
    ELSE IF Len(pieces) = 1 THEN pieces[1]
    ELSE pieces[1] \o <<sep>> \o Join(Tail(pieces), sep)

\* kv[i] of an array: undefined past its end.
At(arr, i) == IF i <= Len(arr) THEN arr[i] ELSE UNDEFINED

\* --------------------------------------------------------- crypto backend
HexDigits == <<"0", "1", "2", "3", "4", "5", "6", "7", "8", "9",
               "a", "b", "c", "d", "e", "f">>

\* The characters that HMAC input and secrets are written in.
Alphabet == Digits \o <<"-", ".", "N", "a", "{", "}", "x", "k", "q">>

CharCode(c) == CHOOSE i \in 1..Len(Alphabet) : Alphabet[i] = c

RECURSIVE HexEncode(_)
HexEncode(s) ==
    IF Len(s) = 0 THEN <<>>
    ELSE <<HexDigits[(CharCode(s[1]) \div 16) + 1], HexDigits[(CharCode(s[1]) % 16) + 1]>>
         \o HexEncode(Tail(s))

\* computeHMACSignature(data, secret): a keyed digest in lower-case hex,
\* injective in (data, secret): the codes of the secret, "00", the codes of
\* the data (no character has code 0).
computeHMACSignature(data, secret) ==
    HexEncode(secret) \o <<"0", "0">> \o HexEncode(data)

\* computeHMACSignatureAsync resolves to the digest of the blocking method.
computeHMACSignatureAsync(data, secret) == computeHMACSignature(data, secret)

\* utils.secureCompare(a, b): constant-time equality of two texts; texts of
\* unequal length are unequal.
secureCompare(a, b) == a = b

\* ------------------------------------------------------------ Webhooks.ts
DEFAULT_TOLERANCE == 300

EXPECTED_SCHEME == <<"v", "1">>

\* The instants at which the model samples Math.floor(Date.now() / 1000).
Clock == (1..MaxTick) \cup {DEFAULT_TOLERANCE + MaxTick - 1}

Tolerances == {JsNum(n) : n \in -1..MaxTolerance} \cup {JsUndefined, JsNull}

\* JSON texts "{}" and x are the payloads; x is not JSON.
Payloads == {<<"{", "}">>, <<"x">>}

Secrets == {<<"k">>, <<"q">>}

\* A header value as the HTTP layer hands it over: a string, a Buffer of
\* the same text, an array of strings, or undefined (the header is absent).
HeaderShapes == {"string", "buffer", "array", "undefined"}

StringHeader(text) == [shape |-> "string", text |-> text]

\* parseHeader's reducer: one comma-separated item folded into accum.
ParseItem(accum, item, scheme) ==
    LET kv == Split(item, "=")
        withT == IF kv[1] = <<"t">>
                 THEN [accum EXCEPT !.timestamp = ParseInt(At(kv, 2))]
                 ELSE accum
    IN  IF kv[1] = scheme
        THEN [withT EXCEPT !.signatures = Append(@, At(kv, 2))]
        ELSE withT

RECURSIVE Reduce(_, _, _)
Reduce(items, accum, scheme) ==
    IF Len(items) = 0 THEN accum
    ELSE Reduce(Tail(items), ParseItem(accum, items[1], scheme), scheme)

\* parseHeader(header, scheme) for a header that is a string.
parseHeader(header, scheme) ==
    Reduce(Split(header, ","), [timestamp |-> JsNum(-1), signatures |-> <<>>], scheme)

\* A slip in makeHMACContent: the payload written before the timestamp.
makeHMACContent_Swapped(payload, details) ==
    payload \o <<".">> \o NumberToString(details.timestamp)

\* makeHMACContent(payload, details)
makeHMACContent(payload, details) ==
    NumberToString(details.timestamp) \o <<".">> \o payload

NoDetails == [timestamp |-> JsNum(-1), signatures |-> <<>>]

\* A slip in parseEventDetails: no test for an array, which parseHeader
\* then answers with null.
parseEventDetails_NoArrayCheck(payload, encodedHeader, expectedScheme) ==
    LET isNull == encodedHeader.shape \in {"undefined", "array"}
        details == IF isNull THEN [timestamp |-> JsNum(-1), signatures |-> <<>>]
                   ELSE parseHeader(encodedHeader.text, expectedScheme)
        error == IF isNull \/ StrictEquals(details.timestamp, JsNum(-1))
                 THEN "MalformedHeader"
                 ELSE IF Len(details.signatures) = 0 THEN "NoSignatures"
                 ELSE "none"
    IN  [error |-> error, details |-> details, trace |-> <<"parseHeader">>]

\* A slip in parseEventDetails: no test for an empty list of signatures.
parseEventDetails_NoSignatureCheck(payload, encodedHeader, expectedScheme) ==
    IF encodedHeader.shape = "array"
    THEN [error |-> "InputShape",
          details |-> [timestamp |-> JsNum(-1), signatures |-> <<>>], trace |-> <<>>]
    ELSE LET isNull == encodedHeader.shape = "undefined"
             details == IF isNull THEN [timestamp |-> JsNum(-1), signatures |-> <<>>]
                        ELSE parseHeader(encodedHeader.text, expectedScheme)
             error == IF isNull \/ StrictEquals(details.timestamp, JsNum(-1))
                      THEN "MalformedHeader" ELSE "none"
         IN  [error |-> error, details |-> details, trace |-> <<"parseHeader">>]

\* parseEventDetails(encodedPayload, encodedHeader, expectedScheme): the
\* error it throws ("none" when it returns), the details it parsed and the
\* calls it made.  isNull: parseHeader returned null (typeof header is not
\* 'string').
parseEventDetails(payload, encodedHeader, expectedScheme) ==
    IF encodedHeader.shape = "array"
    THEN [error |-> "InputShape", details |-> NoDetails, trace |-> <<>>]
    ELSE LET isNull == encodedHeader.shape = "undefined"
             details == IF isNull THEN NoDetails
                        ELSE parseHeader(encodedHeader.text, expectedScheme)
             error == IF isNull \/ StrictEquals(details.timestamp, JsNum(-1))
                      THEN "MalformedHeader"
                      ELSE IF Len(details.signatures) = 0 THEN "NoSignatures"
                      ELSE "none"
         IN  [error |-> error, details |-> details, trace |-> <<"parseHeader">>]

\* A slip in signatureFound: the candidates are counted, not compared.
signatureFound_Uncompared(details, expectedSignature) ==
    Len(details.signatures) # 0

\* A slip in signatureFound: only the first candidate is compared.
signatureFound_FirstOnly(details, expectedSignature) ==
    /\ Len(details.signatures) # 0
    /\ secureCompare(expectedSignature, details.signatures[1])

\* signatureFound of validateComputedSignature.
signatureFound(details, expectedSignature) ==
    Len(SelectSeq(details.signatures,
                  LAMBDA candidate : secureCompare(expectedSignature, candidate))) # 0

\* timestampAge of validateComputedSignature, the clock reading clock.
timestampAge(clock, details) == Minus(JsNum(clock), details.timestamp)

\* A slip in the tolerance test: an age equal to the tolerance is refused.
OutsideTolerance_Inclusive(age, tolerance) ==
    Greater(tolerance, JsNum(0)) /\ ~Greater(tolerance, age)

\* A slip in the tolerance test: the test tolerance > 0 is left out.
OutsideTolerance_Always(age, tolerance) == Greater(age, tolerance)

\* The tolerance test of validateComputedSignature.
OutsideTolerance(age, tolerance) ==
    Greater(tolerance, JsNum(0)) /\ Greater(age, tolerance)

RECURSIVE Repeat(_, _)
Repeat(x, n) == IF n = 0 THEN <<>> ELSE <<x>> \o Repeat(x, n - 1)

\* A slip in validateComputedSignature: the tolerance is tested before the
\* signatures are compared.
validateComputedSignature_TimeFirst(details, expectedSignature, tolerance, clock) ==
    IF Greater(tolerance, JsNum(0))
       /\ Greater(Minus(JsNum(clock), details.timestamp), tolerance)
    THEN [error |-> "TimestampExpired", trace |-> <<"Date.now">>]
    ELSE IF \E i \in 1..Len(details.signatures) :
                secureCompare(expectedSignature, details.signatures[i])
    THEN [error |-> "none",
          trace |-> <<"Date.now">> \o Repeat("secureCompare", Len(details.signatures))]
    ELSE [error |-> "SignatureMismatch",
          trace |-> <<"Date.now">> \o Repeat("secureCompare", Len(details.signatures))]

\* validateComputedSignature(payload, header, details, expectedSignature,
\* tolerance), the clock reading clock: the error it throws ("none" when it
\* returns true) and the calls it made.
validateComputedSignature(details, expectedSignature, tolerance, clock) ==
    LET compares == Repeat("secureCompare", Len(details.signatures))
    IN  IF ~signatureFound(details, expectedSignature)
        THEN [error |-> "SignatureMismatch", trace |-> compares]
        ELSE IF OutsideTolerance(timestampAge(clock, details), tolerance)
        THEN [error |-> "TimestampExpired", trace |-> Append(compares, "Date.now")]
        ELSE [error |-> "none", trace |-> Append(compares, "Date.now")]

\* The outcome of the blocking path of verifyHeader, the clock reading
\* clock: parseEventDetails, then the HMAC, then validateComputedSignature.
verifyHeader(payload, encodedHeader, secret, tolerance, clock) ==
    LET parsed == parseEventDetails(payload, encodedHeader, EXPECTED_SCHEME)
    IN  IF parsed.error # "none"
        THEN [error |-> parsed.error, details |-> parsed.details,
              expectedSignature |-> UNDEFINED, trace |-> parsed.trace]
        ELSE LET expectedSignature ==
                     computeHMACSignature(makeHMACContent(payload, parsed.details), secret)
                 validated == validateComputedSignature(parsed.details, expectedSignature,
                                                        tolerance, clock)
             IN  [error |-> validated.error, details |-> parsed.details,
                  expectedSignature |-> expectedSignature,
                  trace |-> parsed.trace \o <<"computeHMACSignature">> \o validated.trace]

\* JSON.parse(payload) on the JSON texts of the model: "{}" is the empty
\* object, a numeral is its number, anything else is a SyntaxError.
IsNumeral(text) ==
    /\ Len(text) >= 1
    /\ \A i \in 1..Len(text) : IsDigit(text[i])
    /\ (Len(text) > 1 => text[1] # "0")

JsonParse(text) ==
    IF text = <<"{", "}">> THEN [ok |-> TRUE, value |-> [t |-> "object", v |-> 0]]
    ELSE IF IsNumeral(text) THEN [ok |-> TRUE, value |-> ParseInt(text)]
    ELSE [ok |-> FALSE, value |-> JsUndefined]

\* A slip in the default: tolerance ?? Webhook.DEFAULT_TOLERANCE, which
\* replaces null and undefined only.
ToleranceOrDefault_Nullish(tolerance) ==
    IF tolerance.t \in {"null", "undefined"} THEN JsNum(DEFAULT_TOLERANCE) ELSE tolerance

\* tolerance || Webhook.DEFAULT_TOLERANCE of constructEvent and
\* constructEventAsync.
ToleranceOrDefault(tolerance) == Or(tolerance, JsNum(DEFAULT_TOLERANCE))

\* ------------------------------------------------------------------ state
VARIABLES
    now,     \* Math.floor(Date.now() / 1000)
    gen,     \* the last call of generateTestHeaderString: opts given, opts as
             \* the call left them, the header returned, the error thrown
    header,  \* the stripe-signature header value on hand
    edits,   \* how many things happened to it on its way
    call     \* the verification call: arguments, position, outcome

vars == <<now, gen, header, edits, call>>

NoOpts == [timestamp |-> JsUndefined, payload |-> UNDEFINED, secret |-> UNDEFINED,
           scheme |-> UNDEFINED, signature |-> UNDEFINED]

NoGen == [called |-> FALSE, given |-> NoOpts, opts |-> NoOpts,
          returned |-> UNDEFINED, error |-> "none"]

Idle == [op |-> "none", pc |-> "idle", payload |-> UNDEFINED, secret |-> UNDEFINED,
         tolerance |-> JsUndefined, verifyTolerance |-> JsUndefined,
         details |-> NoDetails, expectedSignature |-> UNDEFINED,
         error |-> "none", verified |-> FALSE, returned |-> "nothing",
         event |-> JsUndefined, trace |-> <<>>, clock |-> JsUndefined]

Init ==
    /\ now = 1
    /\ gen = NoGen
    /\ header = [shape |-> "undefined", text |-> <<>>]
    /\ edits = 0
    /\ call = Idle

\* Time passes: the clock is read next at a later instant.
Tick ==
    /\ call.pc # "done"
    /\ \E later \in Clock : later > now /\ now' = later
    /\ UNCHANGED <<gen, header, edits, call>>

\* ---------------------------------------------- generateTestHeaderString
Deadbeef == <<"d", "e", "a", "d", "b", "e", "e", "f">>

\* The opts objects the generator is called with.
OptsDomain ==
    [timestamp : {JsUndefined} \cup {JsNum(n) : n \in -1..1},
     payload : Payloads,
     secret : Secrets,
     scheme : {UNDEFINED, <<"v", "0">>},
     signature : {UNDEFINED, Deadbeef}]

\* a || b on texts: undefined and the empty text are falsy.
OrText(a, b) == IF a = UNDEFINED \/ a = <<>> THEN b ELSE a

\* opts as generateTestHeaderString leaves them (it assigns the defaults to
\* the caller's object), the clock reading clock.
FilledOpts(opts, clock) ==
    LET timestamp == Or(MathFloor(opts.timestamp), JsNum(clock))
    IN  [timestamp |-> timestamp,
         payload |-> opts.payload,
         secret |-> opts.secret,
         scheme |-> OrText(opts.scheme, EXPECTED_SCHEME),
         signature |-> OrText(opts.signature,
                              computeHMACSignature(
                                  NumberToString(timestamp) \o <<".">> \o opts.payload,
                                  opts.secret))]

\* The header generateTestHeaderString returns for the filled opts.
generatedHeader(opts) ==
    Join(<< <<"t", "=">> \o NumberToString(opts.timestamp),
            opts.scheme \o <<"=">> \o opts.signature >>, ",")

GenerateTestHeaderString ==
    /\ ~gen.called
    /\ call.pc = "idle"
    /\ header.shape = "undefined"
    /\ \E opts \in OptsDomain :
          LET filled == FilledOpts(opts, now)
          IN  /\ gen' = [called |-> TRUE, given |-> opts, opts |-> filled,
                         returned |-> generatedHeader(filled), error |-> "none"]
              /\ header' = StringHeader(generatedHeader(filled))
    /\ UNCHANGED <<now, edits, call>>

\* generateTestHeaderString() without opts throws 'Options are required'.
GenerateTestHeaderStringNoOpts ==
    /\ ~gen.called
    /\ call.pc = "idle"
    /\ gen' = [NoGen EXCEPT !.called = TRUE, !.error = "OptionsRequired"]
    /\ UNCHANGED <<now, header, edits, call>>

\* ------------------------------------------------ the header on the wire
\* The payload and the secret of the sender of the signed foreign headers.
SenderPayload == <<"x">>

SenderSecret == <<"k">>

\* The header t=<timestampText>,v1=<signature><suffix> of a sender that
\* signed "<signedText>.<SenderPayload>" with SenderSecret.
SenderHeader(timestampText, signedText, suffix) ==
    <<"t", "=">> \o timestampText \o <<",">> \o EXPECTED_SCHEME \o <<"=">>
        \o computeHMACSignature(signedText \o <<".">> \o SenderPayload, SenderSecret)
        \o suffix

\* Headers that no call of generateTestHeaderString made: "v1=deadbeef";
\* the same after an item t that has no "="; a signed header whose
\* signature is followed by "=x"; and a header with the timestamp text x,
\* signed over the text NaN.
ForeignHeaders ==
    {EXPECTED_SCHEME \o <<"=">> \o Deadbeef,
     <<"t", ",">> \o EXPECTED_SCHEME \o <<"=">> \o Deadbeef,
     SenderHeader(<<"1">>, <<"1">>, <<"=", "x">>),
     SenderHeader(<<"x">>, <<"N", "a", "N">>, <<>>)}

\* A request arrives whose header the generator did not make.
ReceiveForeignHeader ==
    /\ ~gen.called
    /\ call.pc = "idle"
    /\ header.shape = "undefined"
    /\ edits = 0
    /\ \E text \in ForeignHeaders : header' = StringHeader(text)
    /\ UNCHANGED <<now, gen, edits, call>>

\* Pairs that reach the receiver beside the ones on hand: a signature of
\* another sender under the expected scheme, and a timestamp that is no
\* number.
ExtraPairs == {EXPECTED_SCHEME \o <<"=">> \o Deadbeef, <<"t", "=", "x">>}

NumPairs(text) == Len(Split(text, ","))

AppendPair ==
    /\ call.pc = "idle"
    /\ header.shape = "string"
    /\ edits < MaxEdits
    /\ \E pair \in ExtraPairs :
          header' = StringHeader(header.text \o <<",">> \o pair)
    /\ edits' = edits + 1
    /\ UNCHANGED <<now, gen, call>>

PrependPair ==
    /\ call.pc = "idle"
    /\ header.shape = "string"
    /\ edits < MaxEdits
    /\ \E pair \in ExtraPairs :
          header' = StringHeader(pair \o <<",">> \o header.text)
    /\ edits' = edits + 1
    /\ UNCHANGED <<now, gen, call>>

\* The first pair is lost on the way.
DropFirstPair ==
    /\ call.pc = "idle"
    /\ header.shape = "string"
    /\ edits < MaxEdits
    /\ NumPairs(header.text) >= 2
    /\ header' = StringHeader(Join(Tail(Split(header.text, ",")), ","))
    /\ edits' = edits + 1
    /\ UNCHANGED <<now, gen, call>>

\* The HTTP layer hands the header over as a Buffer, as an array, or not at
\* all.
DeliverAs ==
    /\ call.pc = "idle"
    /\ header.shape = "string"
    /\ edits < MaxEdits
    /\ \E shape \in HeaderShapes \ {"string"} :
          header' = [shape |-> shape,
                     text |-> IF shape = "undefined" THEN <<>> ELSE header.text]
    /\ edits' = edits + 1
    /\ UNCHANGED <<now, gen, call>>

\* ----------------------------------------------------- verification calls
\* The call record of a finished blocking verification: verified says that
\* verifyHeader returned true, returned what the caller got when nothing was
\* thrown, clock the reading of Date.now() in validateComputedSignature.
Finished(op, payload, secret, tolerance, verifyTolerance, outcome, clock) ==
    [op |-> op, pc |-> "done", payload |-> payload, secret |-> secret,
     tolerance |-> tolerance, verifyTolerance |-> verifyTolerance,
     details |-> outcome.details, expectedSignature |-> outcome.expectedSignature,
     error |-> outcome.error, verified |-> outcome.error = "none",
     returned |-> IF outcome.error = "none" THEN "true" ELSE "nothing",
     event |-> JsUndefined, trace |-> outcome.trace,
     clock |-> IF outcome.trace # <<>> /\ outcome.trace[Len(outcome.trace)] = "Date.now"
               THEN JsNum(clock) ELSE JsUndefined]

\* A slip in constructEvent: the payload is decoded whatever the
\* verification said.
DecodePayload_Unverified(c) ==
    LET json == JsonParse(c.payload)
    IN  [c EXCEPT !.trace = Append(@, "JSON.parse"),
                  !.error = IF json.ok THEN "none" ELSE "SyntaxError",
                  !.returned = IF json.ok THEN "event" ELSE "nothing",
                  !.event = json.value]

\* The lines of constructEvent and constructEventAsync after the
\* verification returned: JSON.parse(payload), its value returned.
DecodePayload(c) ==
    IF ~c.verified THEN c
    ELSE LET json == JsonParse(c.payload)
         IN  [c EXCEPT !.trace = Append(@, "JSON.parse"),
                       !.error = IF json.ok THEN "none" ELSE "SyntaxError",
                       !.returned = IF json.ok THEN "event" ELSE "nothing",
                       !.event = json.value]

\* signature.verifyHeader(payload, header, secret, tolerance)
VerifyHeader ==
    /\ call.pc = "idle"
    /\ \E payload \in Payloads, secret \in Secrets, tolerance \in Tolerances :
          call' = Finished("verifyHeader", payload, secret, tolerance, tolerance,
                           verifyHeader(payload, header, secret, tolerance, now), now)
    /\ UNCHANGED <<now, gen, header, edits>>

\* Webhook.constructEvent(payload, header, secret, tolerance)
ConstructEvent ==
    /\ call.pc = "idle"
    /\ \E payload \in Payloads, secret \in Secrets, tolerance \in Tolerances :
          LET verifyTolerance == ToleranceOrDefault(tolerance)
          IN  call' = DecodePayload(
                          Finished("constructEvent", payload, secret, tolerance,
                                   verifyTolerance,
                                   verifyHeader(payload, header, secret,
                                                verifyTolerance, now), now))
    /\ UNCHANGED <<now, gen, header, edits>>

\* The call record of signature.verifyHeaderAsync up to its await: it has
\* parsed the header and, unless that threw, has called
\* computeHMACSignatureAsync and is suspended on its promise.
Suspended(op, payload, secret, tolerance, verifyTolerance) ==
    LET parsed == parseEventDetails(payload, header, EXPECTED_SCHEME)
        threw == parsed.error # "none"
    IN  [op |-> op, pc |-> IF threw THEN "done" ELSE "await",
         payload |-> payload, secret |-> secret,
         tolerance |-> tolerance, verifyTolerance |-> verifyTolerance,
         details |-> parsed.details, expectedSignature |-> UNDEFINED,
         error |-> parsed.error, verified |-> FALSE, returned |-> "nothing",
         event |-> JsUndefined,
         trace |-> IF threw THEN parsed.trace
                   ELSE Append(parsed.trace, "computeHMACSignatureAsync"),
         clock |-> JsUndefined]

\* A slip in verifyHeaderAsync: the await is left out, and the promise
\* itself, which equals no text, is compared with the candidates.
Resumed_Unawaited(c, clock) ==
    LET expectedSignature == <<"promise">>
        validated == validateComputedSignature(c.details, expectedSignature,
                                               c.verifyTolerance, clock)
    IN  [c EXCEPT !.pc = "done",
                  !.expectedSignature = expectedSignature,
                  !.error = validated.error,
                  !.verified = validated.error = "none",
                  !.returned = IF validated.error = "none" THEN "true" ELSE "nothing",
                  !.trace = @ \o validated.trace,
                  !.clock = IF validated.error = "SignatureMismatch"
                            THEN JsUndefined ELSE JsNum(clock)]

\* The call record after the promise of computeHMACSignatureAsync resolved
\* and validateComputedSignature ran, the clock reading clock.
Resumed(c, clock) ==
    LET expectedSignature ==
            computeHMACSignatureAsync(makeHMACContent(c.payload, c.details), c.secret)
        validated == validateComputedSignature(c.details, expectedSignature,
                                               c.verifyTolerance, clock)
    IN  [c EXCEPT !.pc = "done",
                  !.expectedSignature = expectedSignature,
                  !.error = validated.error,
                  !.verified = validated.error = "none",
                  !.returned = IF validated.error = "none" THEN "true" ELSE "nothing",
                  !.trace = @ \o validated.trace,
                  !.clock = IF validated.error = "SignatureMismatch"
                            THEN JsUndefined ELSE JsNum(clock)]

\* signature.verifyHeaderAsync(payload, header, secret, tolerance), up to
\* its await.
VerifyHeaderAsync ==
    /\ call.pc = "idle"
    /\ \E payload \in Payloads, secret \in Secrets, tolerance \in Tolerances :
          call' = Suspended("verifyHeaderAsync", payload, secret, tolerance, tolerance)
    /\ UNCHANGED <<now, gen, header, edits>>

\* verifyHeaderAsync continues after its await.
VerifyHeaderAsyncResume ==
    /\ call.pc = "await"
    /\ call.op = "verifyHeaderAsync"
    /\ call' = Resumed(call, now)
    /\ UNCHANGED <<now, gen, header, edits>>

\* Webhook.constructEventAsync(payload, header, secret, tolerance), up to
\* the await inside verifyHeaderAsync.
ConstructEventAsync ==
    /\ call.pc = "idle"
    /\ \E payload \in Payloads, secret \in Secrets, tolerance \in Tolerances :
          call' = Suspended("constructEventAsync", payload, secret, tolerance,
                            ToleranceOrDefault(tolerance))
    /\ UNCHANGED <<now, gen, header, edits>>

\* constructEventAsync continues after verifyHeaderAsync settled.
ConstructEventAsyncResume ==
    /\ call.pc = "await"
    /\ call.op = "constructEventAsync"
    /\ call' = DecodePayload(Resumed(call, now))
    /\ UNCHANGED <<now, gen, header, edits>>

Next ==
    \/ Tick
    \/ GenerateTestHeaderString
    \/ GenerateTestHeaderStringNoOpts
    \/ ReceiveForeignHeader
    \/ AppendPair
    \/ PrependPair
    \/ DropFirstPair
    \/ DeliverAs
    \/ VerifyHeader
    \/ ConstructEvent
    \/ VerifyHeaderAsync
    \/ VerifyHeaderAsyncResume
    \/ ConstructEventAsync
    \/ ConstructEventAsyncResume

Spec == Init /\ [][Next]_vars

\* ----------------------------------------------------------------- claims
Done == call.pc = "done"

ConstructOps == {"constructEvent", "constructEventAsync"}

\* The header on hand is the one generateTestHeaderString returned for
\* {timestamp, payload, secret}, neither scheme nor signature given, and its
\* timestamp is a unix time (-1 is the parser's "not found").
GeneratedFromTriple ==
    /\ gen.called /\ gen.error = "none"
    /\ gen.given.scheme = UNDEFINED /\ gen.given.signature = UNDEFINED
    /\ gen.opts.timestamp.t = "number" /\ gen.opts.timestamp.v >= 0
    /\ header = StringHeader(gen.returned)

\* The HMAC of "{timestamp}.{payload}" under the call's secret, for the
\* timestamp the header was parsed to.
ExpectedOf(c) ==
    computeHMACSignature(NumberToString(c.details.timestamp) \o <<".">> \o c.payload,
                         c.secret)

\* Some candidate under scheme v1 equals that HMAC.
CarriesValidSignature(c) ==
    \E i \in 1..Len(c.details.signatures) : c.details.signatures[i] = ExpectedOf(c)

\* C1: round trip.  verifyHeader(payload, generateTestHeaderString(
\* {timestamp, payload, secret}), secret, 0) returns true, for every payload
\* and secret and every timestamp that is a unix time.
C1_RoundTrip ==
    ( /\ Done /\ call.op = "verifyHeader"
      /\ GeneratedFromTriple
      /\ call.payload = gen.given.payload
      /\ call.secret = gen.given.secret
      /\ call.tolerance = JsNum(0) )
    => (call.returned = "true" /\ call.error = "none")

\* C1's case: a header generated at a late instant (a timestamp of several
\* digits) and verified with tolerance 0 returned true.
C1_Witness ==
    /\ Done /\ call.op = "verifyHeader"
    /\ GeneratedFromTriple
    /\ gen.given.timestamp = JsUndefined
    /\ gen.opts.timestamp.v > DEFAULT_TOLERANCE
    /\ call.payload = gen.given.payload
    /\ call.secret = gen.given.secret
    /\ call.tolerance = JsNum(0)
    /\ call.returned = "true"

StructuralErrors == {"InputShape", "MalformedHeader", "NoSignatures"}

\* The timestamp the header was parsed to is a unix time.
UnixTimestamp(c) == c.details.timestamp.t = "number" /\ c.details.timestamp.v >= 0

\* The parsed timestamp is older than the tolerance of the verification.
Stale(c) ==
    /\ c.verifyTolerance.t = "number" /\ c.verifyTolerance.v > 0
    /\ c.details.timestamp.t = "number"
    /\ now - c.details.timestamp.v > c.verifyTolerance.v

\* C2: soundness.  A verification succeeds only if a v1 candidate of the
\* header equals the HMAC of "{timestamp}.{payload}" under the secret; a
\* header signed for one payload fails with the signature-mismatch error
\* against another payload, and a header signed with one secret fails with
\* it against another secret.
C2_Soundness ==
    /\ (call.verified => CarriesValidSignature(call))
    /\ ( (Done /\ GeneratedFromTriple /\ call.payload # gen.given.payload)
          => call.error = "SignatureMismatch" )
    /\ ( (Done /\ GeneratedFromTriple /\ call.secret # gen.given.secret)
          => call.error = "SignatureMismatch" )

\* C2's case: a generated header verified with the signer's secret against
\* another payload failed with the signature-mismatch error.
C2_Witness ==
    /\ Done /\ call.op = "verifyHeader"
    /\ GeneratedFromTriple
    /\ call.payload # gen.given.payload
    /\ call.secret = gen.given.secret
    /\ call.error = "SignatureMismatch"

\* C3: tolerance boundary.  With a tolerance > 0 and a header that carries
\* a valid signature, the verification succeeds when the timestamp is
\* exactly tolerance seconds old and fails with the timestamp-expired error
\* when it is one second older.
C3_ToleranceBoundary ==
    ( /\ Done
      /\ CarriesValidSignature(call) /\ UnixTimestamp(call)
      /\ call.verifyTolerance.t = "number" /\ call.verifyTolerance.v > 0 )
    => LET age == now - call.details.timestamp.v
       IN  /\ (age = call.verifyTolerance.v => call.verified)
           /\ (age = call.verifyTolerance.v + 1
                 => ~call.verified /\ call.error = "TimestampExpired")

\* C3's case: verifyHeaderAsync accepted a timestamp exactly as old as the
\* tolerance it was given.
C3_Witness ==
    /\ Done /\ call.op = "verifyHeaderAsync"
    /\ CarriesValidSignature(call) /\ UnixTimestamp(call)
    /\ call.tolerance.t = "number" /\ call.tolerance.v > 0
    /\ now - call.details.timestamp.v = call.tolerance.v
    /\ call.returned = "true"

\* C4: tolerance disabled.  With a tolerance <= 0 the timestamp-expired
\* error is never raised, and a header that carries a valid signature
\* verifies however old its timestamp is.
C4_ToleranceDisabled ==
    ( /\ Done
      /\ call.verifyTolerance.t = "number" /\ call.verifyTolerance.v <= 0 )
    => /\ call.error # "TimestampExpired"
       /\ ((CarriesValidSignature(call) /\ UnixTimestamp(call)) => call.verified)

\* C4's case: verifyHeader with tolerance 0 returned true for a timestamp
\* older than DEFAULT_TOLERANCE seconds.
C4_Witness ==
    /\ Done /\ call.op = "verifyHeader"
    /\ call.tolerance = JsNum(0)
    /\ UnixTimestamp(call)
    /\ now - call.details.timestamp.v > DEFAULT_TOLERANCE
    /\ call.returned = "true"

\* C5: multiple signatures.  When the header carries several v1 signatures
\* and any one of them is the expected signature, the signature check
\* passes: the verification succeeds unless the timestamp is stale.
C5_AnySignatureMatches ==
    ( /\ Done
      /\ Len(call.details.signatures) >= 2
      /\ CarriesValidSignature(call) /\ UnixTimestamp(call) )
    => /\ call.error # "SignatureMismatch"
       /\ (~Stale(call) => call.verified)
       /\ (Stale(call) => call.error = "TimestampExpired")

\* C5's case: the expected signature is the second of two candidates, the
\* first is another, and the verification succeeded.
C5_Witness ==
    /\ Done
    /\ Len(call.details.signatures) = 2
    /\ call.details.signatures[1] # ExpectedOf(call)
    /\ call.details.signatures[2] = ExpectedOf(call)
    /\ call.verified

\* Some comma-separated item of the text is a pair t=<value>.
HasTimestampPair(text) ==
    \E i \in 1..NumPairs(text) :
        LET item == Split(text, ",")[i]
        IN  Len(item) >= 2 /\ item[1] = "t" /\ item[2] = "="

\* C6: a header without any pair t=<value> fails with the malformed-header
\* error, whatever signatures it carries.
C6_NoTimestampPair ==
    ( /\ Done
      /\ header.shape \in {"string", "buffer"}
      /\ ~HasTimestampPair(header.text) )
    => call.error = "MalformedHeader"

\* C7: an array-shaped header is rejected with the input-shape error before
\* the header parser and the crypto backend are called; the call never
\* suspends, never verifies and never reports a signature mismatch.
C7_ArrayRejected ==
    (header.shape = "array" /\ call.pc # "idle")
    => /\ Done
       /\ call.error = "InputShape"
       /\ call.trace = <<>>
       /\ ~call.verified /\ call.returned = "nothing"

\* C7's case: verifyHeaderAsync was given an array and rejected it.
C7_Witness ==
    /\ Done /\ call.op = "verifyHeaderAsync"
    /\ header.shape = "array"
    /\ call.error = "InputShape"

InTrace(c, step) == \E i \in 1..Len(c.trace) : c.trace[i] = step

\* C8: constructEvent and constructEventAsync decode the payload only after
\* the verification succeeded, and return the decoded payload; when the
\* verification fails its error reaches the caller, JSON.parse is not
\* called and nothing is returned.
C8_EventOnlyAfterVerification ==
    (call.op \in ConstructOps)
    => /\ (InTrace(call, "JSON.parse") => call.verified)
       /\ (call.returned = "event"
             => call.verified /\ CarriesValidSignature(call)
                /\ call.event = JsonParse(call.payload).value)
       /\ ( (Done /\ ~call.verified)
             => /\ call.error \in StructuralErrors
                                  \cup {"SignatureMismatch", "TimestampExpired"}
                /\ call.returned = "nothing"
                /\ call.event = JsUndefined )

\* C8's case: constructEventAsync was given a JSON payload whose signature
\* did not match; it threw the mismatch and decoded nothing.
C8_Witness ==
    /\ Done /\ call.op = "constructEventAsync"
    /\ JsonParse(call.payload).ok
    /\ call.error = "SignatureMismatch"
    /\ ~InTrace(call, "JSON.parse")
    /\ call.returned = "nothing"

\* C9: check ordering.  A header that passed the structural checks and has
\* no matching signature fails with the signature-mismatch error, however
\* stale its timestamp; the timestamp-expired error is raised only when a
\* signature matched, and the clock is read only after the last comparison.
C9_SignatureBeforeTimestamp ==
    /\ ( (Done /\ call.error \notin StructuralErrors /\ ~CarriesValidSignature(call))
          => call.error = "SignatureMismatch" )
    /\ (call.error = "TimestampExpired" => CarriesValidSignature(call))
    /\ \A i, j \in 1..Len(call.trace) :
           (call.trace[i] = "secureCompare" /\ call.trace[j] = "Date.now") => i < j

\* C9's case: no signature matched and the timestamp was older than the
\* tolerance; the error was the signature mismatch.
C9_Witness ==
    /\ Done
    /\ ~CarriesValidSignature(call)
    /\ Stale(call)
    /\ call.error = "SignatureMismatch"

\* C10: no HMAC before the structural checks pass.  On both paths, when the
\* parsed header has timestamp -1 or no signatures the call fails without
\* the HMAC being computed and without any comparison.
C10_NoHMACBeforeStructure ==
    ( /\ call.pc # "idle"
      /\ \/ StrictEquals(call.details.timestamp, JsNum(-1))
         \/ Len(call.details.signatures) = 0 )
    => /\ Done
       /\ call.error \in StructuralErrors
       /\ ~call.verified
       /\ call.expectedSignature = UNDEFINED
       /\ ~InTrace(call, "computeHMACSignature")
       /\ ~InTrace(call, "computeHMACSignatureAsync")
       /\ ~InTrace(call, "secureCompare")

\* C10's case: verifyHeaderAsync parsed a header with a timestamp and no v1
\* signature, and failed without suspending.
C10_Witness ==
    /\ Done /\ call.op = "verifyHeaderAsync"
    /\ header.shape = "string"
    /\ call.details.timestamp.t = "number" /\ call.details.timestamp.v >= 0
    /\ Len(call.details.signatures) = 0
    /\ call.error = "NoSignatures"
    /\ call.trace = <<"parseHeader">>

\* The pair (key, value) of an item split on its first "=" only: the key is
\* the text before it, the value all of the text after it (undefined when
\* the item has no "=").
FirstEquals(item) ==
    IF \E i \in 1..Len(item) : item[i] = "="
    THEN CHOOSE i \in 1..Len(item) :
             item[i] = "=" /\ \A j \in 1..(i - 1) : item[j] # "="
    ELSE 0

KeyOf(item) ==
    IF FirstEquals(item) = 0 THEN item ELSE SubSeq(item, 1, FirstEquals(item) - 1)

WholeValueOf(item) ==
    IF FirstEquals(item) = 0 THEN UNDEFINED
    ELSE SubSeq(item, FirstEquals(item) + 1, Len(item))

\* The details of a header whose items are split on their first "=" only.
RECURSIVE DetailsOfWholeValues(_, _)
DetailsOfWholeValues(items, accum) ==
    IF Len(items) = 0 THEN accum
    ELSE LET key == KeyOf(items[1])
             value == WholeValueOf(items[1])
             withT == IF key = <<"t">>
                      THEN [accum EXCEPT !.timestamp = ParseInt(value)]
                      ELSE accum
         IN  DetailsOfWholeValues(
                 Tail(items),
                 IF key = EXPECTED_SCHEME
                 THEN [withT EXCEPT !.signatures = Append(@, value)]
                 ELSE withT)

\* C11: the header parser splits each comma-separated item on its first
\* "=" only: the key is the text before it and the value all of the text
\* after it, so that a value that holds "=" is kept whole, as the text of
\* the timestamp or as the signature appended.
C11_SplitOnFirstEquals ==
    (call.pc # "idle" /\ header.shape \in {"string", "buffer"})
    => call.details = DetailsOfWholeValues(Split(header.text, ","), NoDetails)

\* The text has a pair t=<value>, and the value of no such pair can be
\* parsed as a base-10 integer.
UnparsableTimestamp(text) ==
    LET items == Split(text, ",")
        IsPair(i) == FirstEquals(items[i]) # 0 /\ KeyOf(items[i]) = <<"t">>
    IN  /\ \E i \in 1..Len(items) : IsPair(i)
        /\ \A i \in 1..Len(items) :
               IsPair(i) => ParseInt(WholeValueOf(items[i])) = JsNaN

\* C12: a header whose t= value cannot be parsed as a base-10 integer never
\* verifies: it is treated like a missing timestamp and fails with the
\* malformed-header error, whatever the payload, the secret, the tolerance
\* and the signatures, a signature over the text NaN included.
C12_UnparsableTimestampIsMalformed ==
    ( /\ call.pc # "idle"
      /\ header.shape \in {"string", "buffer"}
      /\ UnparsableTimestamp(header.text) )
    => /\ Done
       /\ ~call.verified
       /\ call.error = "MalformedHeader"

\* The calls of the blocking path, the HMAC method replaced by the one that
\* returns a promise.
AsyncTrace(trace) ==
    [i \in 1..Len(trace) |->
        IF trace[i] = "computeHMACSignature" THEN "computeHMACSignatureAsync"
        ELSE trace[i]]

\* C13: sync/async equivalence.  For every payload, header, secret and
\* tolerance, verifyHeaderAsync resolves to true exactly when verifyHeader
\* returns true for the same reading of the clock, and otherwise rejects
\* with the error kind verifyHeader throws; it makes the same calls, and it
\* is suspended only on the HMAC, after the structural checks passed.
C13_SyncAsyncEquivalence ==
    (call.op = "verifyHeaderAsync")
    => LET sync == verifyHeader(call.payload, header, call.secret, call.tolerance, now)
       IN  /\ ( Done
                 => /\ call.error = sync.error
                    /\ (call.returned = "true") = (sync.error = "none")
                    /\ call.verified = (sync.error = "none")
                    /\ call.trace = AsyncTrace(sync.trace) )
           /\ ( call.pc = "await"
                 => /\ sync.error \notin StructuralErrors
                    /\ call.error = "none" /\ call.returned = "nothing"
                    /\ call.trace = <<"parseHeader", "computeHMACSignatureAsync">> )
           /\ ( (Done /\ sync.error \in StructuralErrors)
                 => ~InTrace(call, "computeHMACSignatureAsync") )

\* C13's case: verifyHeaderAsync was suspended on the HMAC, time passed, and
\* it rejected a matching signature as expired, reading the clock after the
\* await at an instant later than the first.
C13_Witness ==
    /\ Done /\ call.op = "verifyHeaderAsync"
    /\ InTrace(call, "computeHMACSignatureAsync")
    /\ CarriesValidSignature(call)
    /\ call.error = "TimestampExpired"
    /\ call.clock = JsNum(now) /\ now > 1

\* The tolerances that constructEvent and constructEventAsync replace.
Defaulted == {JsNum(0), JsNull, JsUndefined}

\* C14: constructEvent and constructEventAsync pass the caller's tolerance
\* to the verification unchanged when it is not zero, and DEFAULT_TOLERANCE
\* when it is 0, null or undefined.  Through them a tolerance of 0 enforces
\* the window of DEFAULT_TOLERANCE seconds: a validly signed event is
\* accepted up to that age and rejected with the timestamp-expired error
\* when older; a negative tolerance disables the time check.
C14_DefaultToleranceSubstitution ==
    (call.op \in ConstructOps)
    => LET valid == CarriesValidSignature(call) /\ UnixTimestamp(call)
           age == now - call.details.timestamp.v
       IN  /\ (call.tolerance \in Defaulted
                  => call.verifyTolerance = JsNum(DEFAULT_TOLERANCE))
           /\ (call.tolerance \notin Defaulted
                  => call.verifyTolerance = call.tolerance)
           /\ ( (Done /\ valid /\ call.tolerance \in Defaulted)
                 => IF age > DEFAULT_TOLERANCE
                    THEN /\ call.error = "TimestampExpired"
                         /\ ~call.verified /\ call.returned = "nothing"
                    ELSE call.verified )
           /\ ( (Done /\ call.tolerance.t = "number" /\ call.tolerance.v < 0)
                 => /\ call.error # "TimestampExpired"
                    /\ (valid => call.verified) )

\* C14's case: constructEvent was given the tolerance 0 and a validly signed
\* event one second older than DEFAULT_TOLERANCE, and rejected it as
\* expired.
C14_Witness ==
    /\ Done /\ call.op = "constructEvent"
    /\ call.tolerance = JsNum(0)
    /\ CarriesValidSignature(call) /\ UnixTimestamp(call)
    /\ now - call.details.timestamp.v = DEFAULT_TOLERANCE + 1
    /\ call.error = "TimestampExpired"

=============================================================================
